---- MODULE Spec2Model ----
(***************************************************************************)
(* Model of the DFT / FFT transform kernel (src/src/dft.rs, fft.rs,        *)
(* utils.rs, error.rs).                                                    *)
(*                                                                         *)
(* Numbers.  The program computes in f64.  The model computes exactly in   *)
(* the real field Q(sqrt2, sqrt3): it contains cos and sin of every        *)
(* multiple of 15 degrees, so the roots of unity of order 1,2,3,4,6,8,12   *)
(* and 24 are exact.  A real is the record [a,b,c,e,d] standing for        *)
(*     (a + b*sqrt2 + c*sqrt3 + e*sqrt6) / d                               *)
(* kept in lowest terms with d > 0, so equal reals are equal records.      *)
(* Rounding of f64 is not modelled.                                        *)
(***************************************************************************)
EXTENDS Integers, Sequences, FiniteSets, TLC

----------------------------------------------------------------------------
(* f64, exactly *)

Abs(k) == IF k < 0 THEN -k ELSE k

RECURSIVE GCD(_, _)
GCD(p, q) == IF q = 0 THEN p ELSE GCD(q, p % q)

\* (a + b*sqrt2 + c*sqrt3 + e*sqrt6) / d with every part divided by g
Reduce(a, b, c, e, d, g) ==
    [a |-> a \div g, b |-> b \div g, c |-> c \div g, e |-> e \div g, d |-> d \div g]

\* lowest terms of (a + b*sqrt2 + c*sqrt3 + e*sqrt6) / d, d > 0
Norm(a, b, c, e, d) ==
    IF d = 1 THEN [a |-> a, b |-> b, c |-> c, e |-> e, d |-> 1]
    ELSE Reduce(a, b, c, e, d,
                GCD(GCD(GCD(Abs(a), Abs(b)), GCD(Abs(c), Abs(e))), d))

\* `i as f64`, and the literals 0_f64, 1.0, ...
R(k) == [a |-> k, b |-> 0, c |-> 0, e |-> 0, d |-> 1]

\* f64 + f64
RAdd(x, y) ==
    Norm(x.a * y.d + y.a * x.d, x.b * y.d + y.b * x.d,
         x.c * y.d + y.c * x.d, x.e * y.d + y.e * x.d, x.d * y.d)

\* -f64
RNeg(x) == [a |-> -x.a, b |-> -x.b, c |-> -x.c, e |-> -x.e, d |-> x.d]

\* f64 - f64
RSub(x, y) == RAdd(x, RNeg(y))

\* f64 * f64
RMul(x, y) ==
    Norm(x.a * y.a + 2 * x.b * y.b + 3 * x.c * y.c + 6 * x.e * y.e,
         x.a * y.b + x.b * y.a + 3 * (x.c * y.e + x.e * y.c),
         x.a * y.c + x.c * y.a + 2 * (x.b * y.e + x.e * y.b),
         x.a * y.e + x.e * y.a + x.b * y.c + x.c * y.b,
         x.d * y.d)

\* A value the exact field cannot hold.  Any arithmetic on it stops the
\* model checker, so no result is ever silently wrong.
Inexact == [a |-> "inexact", b |-> "inexact", c |-> "inexact", e |-> "inexact",
            d |-> "inexact"]

\* f64 / f64, for the divisors the program uses (a nonzero rational p/q)
RDiv(x, y) ==
    IF y.b = 0 /\ y.c = 0 /\ y.e = 0 /\ y.a > 0
    THEN Norm(x.a * y.d, x.b * y.d, x.c * y.d, x.e * y.d, x.d * y.a)
    ELSE IF y.b = 0 /\ y.c = 0 /\ y.e = 0 /\ y.a < 0
    THEN Norm(-x.a * y.d, -x.b * y.d, -x.c * y.d, -x.e * y.d, x.d * (-y.a))
    ELSE Inexact

\* cos of k*15 degrees, 0 <= k <= 6
CosTable ==
    << [a |-> 1, b |-> 0, c |-> 0, e |-> 0, d |-> 1],    \*  0: 1
       [a |-> 0, b |-> 1, c |-> 0, e |-> 1, d |-> 4],    \* 15: (sqrt2+sqrt6)/4
       [a |-> 0, b |-> 0, c |-> 1, e |-> 0, d |-> 2],    \* 30: sqrt3/2
       [a |-> 0, b |-> 1, c |-> 0, e |-> 0, d |-> 2],    \* 45: sqrt2/2
       [a |-> 1, b |-> 0, c |-> 0, e |-> 0, d |-> 2],    \* 60: 1/2
       [a |-> 0, b |-> -1, c |-> 0, e |-> 1, d |-> 4],   \* 75: (sqrt6-sqrt2)/4
       [a |-> 0, b |-> 0, c |-> 0, e |-> 0, d |-> 1] >>  \* 90: 0

\* cos(k * 15 degrees), any integer k
\* cos(f * 15 degrees), 0 <= f <= 12
CosHalfTurn(f) == IF f <= 6 THEN CosTable[f + 1] ELSE RNeg(CosTable[12 - f + 1])

\* cos(k * 15 degrees), any integer k; cos(-t) = cos(t)
Cos15(k) == IF k % 24 > 12 THEN CosHalfTurn(24 - (k % 24)) ELSE CosHalfTurn(k % 24)

\* sin(k * 15 degrees) = cos(k*15 - 90)
Sin15(k) == Cos15(k - 6)

----------------------------------------------------------------------------
(* num::complex::Complex<f64> *)

\* Complex::new(re, im)
Complex(re, im) == [re |-> re, im |-> im]

\* Complex64::default()
CZero == Complex(R(0), R(0))

\* Complex + Complex
CAdd(x, y) == Complex(RAdd(x.re, y.re), RAdd(x.im, y.im))

\* Complex * Complex
CMul(x, y) == Complex(RSub(RMul(x.re, y.re), RMul(x.im, y.im)),
                      RAdd(RMul(x.re, y.im), RMul(x.im, y.re)))

\* Complex::norm_sqr
norm_sqr(y) == RAdd(RMul(y.re, y.re), RMul(y.im, y.im))

\* the two quotients of Complex / Complex, given the divisor's norm_sqr
CDivBy(x, y, ns) ==
    Complex(RDiv(RAdd(RMul(x.re, y.re), RMul(x.im, y.im)), ns),
            RDiv(RSub(RMul(x.im, y.re), RMul(x.re, y.im)), ns))

\* Complex / Complex
CDiv(x, y) == CDivBy(x, y, norm_sqr(y))

\* Complex::conj
conj(x) == Complex(x.re, RNeg(x.im))

(* Angles.  The arguments of exp() are f64 multiples of 2*PI/n, which no   *)
(* algebraic field holds.  Such a complex number is modelled by the pair   *)
(* of integers [re, im] that counts its parts in units of 2*PI/n.          *)

\* Complex::new(0_f64, sign * 2_f64 * PI / n): sign units of 2*PI/n
AngleW(sign) == [re |-> 0, im |-> sign]

\* Complex * Complex where the left operand is an angle (in units of 2*PI/n)
\* and the right one a complex number with integer parts
AMul(w, z) == [re |-> w.re * z.re - w.im * z.im,
               im |-> w.re * z.im + w.im * z.re]

\* Complex::exp of an angle z in units of 2*PI/n:
\* e^(z.re) * (cos(z.im) + i*sin(z.im))
AExp(z, n) ==
    IF z.re = 0 /\ n > 0 /\ 24 % n = 0
    THEN Complex(Cos15((z.im % n) * (24 \div n)), Sin15((z.im % n) * (24 \div n)))
    ELSE Complex(Inexact, Inexact)

----------------------------------------------------------------------------
(* Outcomes of a call, and the record of the calls it made *)

\* Ok(val), with the calls made on the way
Ok(v, log) == [tag |-> "Ok", val |-> v, err |-> -1, log |-> log]

\* Err(FftError::NotAPowerOfTwo(n))                       src/src/error.rs
NotAPowerOfTwo(n, log) == [tag |-> "Err", val |-> << >>, err |-> n, log |-> log]

\* a panic: assert_eq!, zip_eq or an index out of bounds; nothing is returned
Abort(log) == [tag |-> "Abort", val |-> << >>, err |-> -1, log |-> log]

\* one call (or the even/odd split, "split"): the function, its depth below
\* the operation the caller invoked (a function's callees and steps are one
\* deeper than it), the two lengths it is about, and whether its matrix
\* argument is square
Ev(fn, la, lb, sq) == [fn |-> fn, depth |-> 0, la |-> la, lb |-> lb, sq |-> sq]

\* the calls of a callee, seen from its caller
Deeper(log) == [k \in 1..Len(log) |-> [log[k] EXCEPT !.depth = @ + 1]]

\* the outcome r of the body of function fn, called on a sequence of length n
Called(fn, n, r) == [r EXCEPT !.log = << Ev(fn, n, n, TRUE) >> \o Deeper(@)]

\* the outcome r of a step that came after the calls in log
After(log, r) == [r EXCEPT !.log = log \o @]

----------------------------------------------------------------------------
(* src/src/utils.rs *)

\* Iterator::sum() of m[i][j] * v[j] for j in 0..n, from Complex::zero()
RECURSIVE RowSum(_, _, _)
RowSum(row, v, n) ==
    IF n = 0 THEN CZero
    ELSE CAdd(RowSum(row, v, n - 1), CMul(row[n], v[n]))

\* mul_mv, given the record of the call
mul_mv_body(m, v, n, log) ==
    IF n = 0 THEN Abort(log)                              \* m[0] out of bounds
    ELSE IF Len(m[1]) # n THEN Abort(log)                 \* first assert_eq!
    ELSE IF n # Len(v) THEN Abort(log)                    \* second assert_eq!
    ELSE IF \E i \in 1..n : Len(m[i]) < n THEN Abort(log) \* m[i][j] out of bounds
    ELSE Ok([i \in 1..n |-> RowSum(m[i], v, n)], log)

mul_mv(m, v) ==
    mul_mv_body(m, v, Len(m),
                << Ev("mul_mv", Len(m), Len(v), \A i \in 1..Len(m) : Len(m[i]) = Len(m)) >>)

add_vv(a, b) ==
    IF Len(a) # Len(b)
    THEN Abort(<< Ev("add_vv", Len(a), Len(b), TRUE) >>)  \* zip_eq
    ELSE Ok([i \in 1..Len(a) |-> CAdd(a[i], b[i])],
            << Ev("add_vv", Len(a), Len(b), TRUE) >>)

mul_vv_el(a, b) ==
    IF Len(a) # Len(b)
    THEN Abort(<< Ev("mul_vv_el", Len(a), Len(b), TRUE) >>)  \* zip_eq
    ELSE Ok([i \in 1..Len(a) |-> CMul(a[i], b[i])],
            << Ev("mul_vv_el", Len(a), Len(b), TRUE) >>)

----------------------------------------------------------------------------
(* src/src/dft.rs *)

\* entry (i, j) of the transform matrix, i and j counted from 0:
\* (w * i_compl * j_compl).exp()
dft_entry(len, w, i, j) ==
    AExp(AMul(AMul(w, [re |-> 0, im |-> i]), [re |-> 0, im |-> j]), len)

compute_dft_matrix(len, w) ==
    [i \in 1..len |-> [j \in 1..len |-> dft_entry(len, w, i - 1, j - 1)]]

\* w of dft_complex, Complex::new(0_f64, -2_f64 * PI / n), in units of 2*PI/n
dft_w == AngleW(-1)

\* a variant of idft_w: the sign of dft_complex's w
idft_w_as_forward == AngleW(-1)

\* w of idft, Complex::new(0_f64, 2_f64 * PI / n), in units of 2*PI/n
idft_w == AngleW(1)

dft_complex(x) ==
    Called("dft_complex", Len(x), mul_mv(compute_dft_matrix(Len(x), dft_w), x))

\* the promotion of real samples, Complex::new(x[i], 0_f64)
promote(x) == [i \in 1..Len(x) |-> Complex(x[i], R(0))]

dft(x) == Called("dft", Len(x), dft_complex(promote(x)))

\* (r[i] / Complex::new(n, 0_f64)).re for i in 0..r.len(), r the sequence
\* of the outcome res (none when res is a panic)
scaled_re(res, n) ==
    [res EXCEPT !.val = [i \in 1..Len(@) |-> CDiv(@[i], Complex(R(n), R(0))).re]]

idft(x) ==
    Called("idft", Len(x),
           scaled_re(mul_mv(compute_dft_matrix(Len(x), idft_w), x), Len(x)))

----------------------------------------------------------------------------
(* src/src/fft.rs *)

\* a variant of is_power_of_two: n & (n - 1) == 0, which 0 passes
is_power_of_two_or_zero(n) == n = 0 \/ \E k \in 0..n : 2^k = n

\* usize::is_power_of_two
RECURSIVE is_power_of_two(_)
is_power_of_two(n) ==
    /\ n >= 1
    /\ n = 1 \/ (n % 2 = 0 /\ is_power_of_two(n \div 2))

\* the loop that pushes x[i] to x_even for even i (counted from 0)
x_even_of(x) == [k \in 1..((Len(x) + 1) \div 2) |-> x[2 * k - 1]]

\* ... and to x_odd for odd i
x_odd_of(x) == [k \in 1..(Len(x) \div 2) |-> x[2 * k]]

\* w of fft_complex, Complex::new(0_f64, 2_f64 * PI / N), in units of 2*PI/N
fft_w == AngleW(1)

\* a variant of twiddle: w with the opposite sign
twiddle_negative(N, i) == AExp(AMul(AngleW(-1), [re |-> i, im |-> 0]), N)

\* f_i[i], i counted from 0: complex.re = i; (w * complex).exp()
twiddle(N, i) == AExp(AMul(fft_w, [re |-> i, im |-> 0]), N)

\* add_vv(x_even_cmplx, prod), prod the outcome of mul_vv_el
add_to_even(x_even_cmplx, prod) ==
    IF prod.tag # "Ok" THEN prod
    ELSE After(prod.log, add_vv(x_even_cmplx, prod.val))

\* add_vv(&x_even_cmplx, &mul_vv_el(&x_odd_cmplx, f)) for a half f of f_i
butterfly(x_even_cmplx, x_odd_cmplx, f) ==
    add_to_even(x_even_cmplx, mul_vv_el(x_odd_cmplx, f))

\* a variant of append_halves: the second half is never appended
append_first_half(aa, bb) ==
    IF aa.tag # "Ok" THEN aa
    ELSE IF bb.tag # "Ok" THEN After(aa.log, bb)
    ELSE Ok(aa.val, aa.log \o bb.log)

\* r.append(&mut aa); r.append(&mut bb); Ok(r)
append_halves(aa, bb) ==
    IF aa.tag # "Ok" THEN aa
    ELSE IF bb.tag # "Ok" THEN After(aa.log, bb)
    ELSE Ok(aa.val \o bb.val, aa.log \o bb.log)

\* a variant of combine: the first butterfly gets all of f_i, not f_i[0..N/2]
combine_unsliced(N, x_even_cmplx, x_odd_cmplx) ==
    append_halves(
        butterfly(x_even_cmplx, x_odd_cmplx,
                  [i \in 1..N |-> twiddle(N, i - 1)]),
        butterfly(x_even_cmplx, x_odd_cmplx,
                  [i \in 1..(N - N \div 2) |-> twiddle(N, N \div 2 + i - 1)]))

\* lines 34-52: the twiddle factors and the two halves of the result
combine(N, x_even_cmplx, x_odd_cmplx) ==
    append_halves(
        butterfly(x_even_cmplx, x_odd_cmplx,
                  [i \in 1..(N \div 2) |-> twiddle(N, i - 1)]),            \* f_i[0..N/2]
        butterfly(x_even_cmplx, x_odd_cmplx,
                  [i \in 1..(N - N \div 2) |-> twiddle(N, N \div 2 + i - 1)])) \* f_i[N/2..]

RECURSIVE fft_complex(_)

\* lines 31-52, given the outcomes e of fft_complex(&x_even) and o of
\* fft_complex(&x_odd); o is looked at only when e is Ok
recombine(x, e, o) ==
    IF e.tag # "Ok" THEN e                                  \* the ? operator
    ELSE IF o.tag # "Ok" THEN After(e.log, o)               \* the ? operator
    ELSE After(e.log \o o.log, combine(Len(x), e.val, o.val))

\* a variant of fft_complex: the check only rejects odd lengths
fft_complex_even_check(x) ==
    IF Len(x) % 2 # 0 /\ Len(x) # 1
    THEN NotAPowerOfTwo(Len(x), << Ev("fft_complex", Len(x), Len(x), TRUE) >>)
    ELSE IF Len(x) <= 2
    THEN Called("fft_complex", Len(x), dft_complex(x))
    ELSE Called("fft_complex", Len(x),
                After(<< Ev("split", Len(x_even_of(x)), Len(x_odd_of(x)), TRUE) >>,
                      recombine(x, fft_complex(x_even_of(x)),
                                   fft_complex(x_odd_of(x)))))

\* a variant of fft_complex: the terminal case is N <= 1
fft_complex_base_one(x) ==
    IF ~is_power_of_two(Len(x))
    THEN NotAPowerOfTwo(Len(x), << Ev("fft_complex", Len(x), Len(x), TRUE) >>)
    ELSE IF Len(x) <= 1
    THEN Called("fft_complex", Len(x), dft_complex(x))
    ELSE Called("fft_complex", Len(x),
                After(<< Ev("split", Len(x_even_of(x)), Len(x_odd_of(x)), TRUE) >>,
                      recombine(x, fft_complex(x_even_of(x)),
                                   fft_complex(x_odd_of(x)))))

fft_complex(x) ==
    IF ~is_power_of_two(Len(x))
    THEN NotAPowerOfTwo(Len(x), << Ev("fft_complex", Len(x), Len(x), TRUE) >>)
    ELSE IF Len(x) <= 2
    THEN Called("fft_complex", Len(x), dft_complex(x))
    ELSE Called("fft_complex", Len(x),
                After(<< Ev("split", Len(x_even_of(x)), Len(x_odd_of(x)), TRUE) >>,
                      recombine(x, fft_complex(x_even_of(x)),
                                   fft_complex(x_odd_of(x)))))

fft(x) == Called("fft", Len(x), fft_complex(promote(x)))

\* a variant of conj_and_scale: the division by N is left out
conj_unscaled(x, x_res) ==
    IF x_res.tag # "Ok" THEN x_res
    ELSE IF Len(x_res.val) < Len(x) THEN Abort(x_res.log)
    ELSE Ok([i \in 1..Len(x) |-> conj(x_res.val[i]).re], x_res.log)

\* lines 61-64, given the outcome x_res of fft_complex(&x_conj)
conj_and_scale(x, x_res) ==
    IF x_res.tag # "Ok" THEN x_res                          \* the ? operator
    ELSE IF Len(x_res.val) < Len(x) THEN Abort(x_res.log)   \* x_res[i] out of bounds
    ELSE scaled_re(Ok([i \in 1..Len(x) |-> conj(x_res.val[i])], x_res.log), Len(x))

ifft(x) ==
    Called("ifft", Len(x),
           conj_and_scale(x, fft_complex([i \in 1..Len(x) |-> conj(x[i])])))

----------------------------------------------------------------------------
(* The callers.  The library keeps no state between calls, so the state    *)
(* is one caller's: the input it holds, the forward transform it applied   *)
(* and its outcome, the inverse transform it applied and its outcome.      *)

MaxLen  == 8       \* longest sequence of real samples a caller passes
MaxCLen == 3       \* longest sequence of complex values a caller passes
MaxRows == 2       \* most rows of a matrix passed to mul_mv
MaxCols == 3       \* longest row, and longest vector, passed to mul_mv

Samples    == {0, 1}       \* the values of the real samples
MatEntries == {1}          \* the values of the matrix entries
VecEntries == {1, 2}       \* the values of the vector entries

\* the lengths whose roots of unity the exact field holds; the O(n^2)
\* transforms are applied to sequences of these lengths only
ExactLens == {0, 1, 2, 3, 4, 6, 8, 12, 24}

SeqsUpTo(S, n) == UNION {[1..k -> S] : k \in 0..n}

RealInputs == {[i \in 1..Len(q) |-> R(q[i])] : q \in SeqsUpTo(Samples, MaxLen)}

ComplexInputs ==
    {[i \in 1..Len(q) |-> Complex(R(q[i][1]), R(q[i][2]))] :
        q \in SeqsUpTo(Samples \X Samples, MaxCLen)}

Vectors == {[i \in 1..Len(q) |-> Complex(R(q[i]), R(0))] :
               q \in SeqsUpTo(VecEntries, MaxCols)}

Rows == {[i \in 1..Len(q) |-> Complex(R(q[i]), R(0))] :
            q \in SeqsUpTo(MatEntries, MaxCols)}

\* matrices as mul_mv takes them, &[Vec<Complex64>]: rows of any lengths
Matrices == SeqsUpTo(Rows, MaxRows)

None == [tag |-> "None", val |-> << >>, err |-> -1, log |-> << >>]

VARIABLES
    pc,      \* "input", "forward" (a forward transform was applied),
             \* "inverse" (an inverse transform was applied), "mul_mv"
    input,   \* what the caller holds: [kind, val, m]
    fop,     \* the forward operation applied, or "none"
    fres,    \* its outcome
    iop,     \* the inverse operation applied, or "none"
    iarg,    \* the sequence it was applied to
    ires     \* its outcome

vars == << pc, input, fop, fres, iop, iarg, ires >>

Init ==
    /\ pc = "input"
    /\ input \in
         {[kind |-> "real", val |-> q, m |-> << >>] : q \in RealInputs}
         \cup {[kind |-> "complex", val |-> q, m |-> << >>] : q \in ComplexInputs}
         \cup {[kind |-> "matrix", val |-> q, m |-> mm] :
                  q \in Vectors, mm \in Matrices}
    /\ fop = "none" /\ fres = None
    /\ iop = "none" /\ iarg = << >> /\ ires = None

Forward(op, res) ==
    /\ pc' = "forward" /\ fop' = op /\ fres' = res
    /\ UNCHANGED << input, iop, iarg, ires >>

Inverse(op, arg, res) ==
    /\ pc' = "inverse" /\ iop' = op /\ iarg' = arg /\ ires' = res
    /\ UNCHANGED << input, fop, fres >>

\* dft(&x) on real samples
Dft ==
    /\ pc = "input" /\ input.kind = "real" /\ Len(input.val) \in ExactLens
    /\ Forward("dft", dft(input.val))

\* fft(&x) on real samples
Fft ==
    /\ pc = "input" /\ input.kind = "real"
    /\ Forward("fft", fft(input.val))

\* dft_complex(&x) on complex samples
DftComplex ==
    /\ pc = "input" /\ input.kind = "complex" /\ Len(input.val) \in ExactLens
    /\ Forward("dft_complex", dft_complex(input.val))

\* fft_complex(&x) on complex samples (as the crate's own tests call it)
FftComplex ==
    /\ pc = "input" /\ input.kind = "complex"
    /\ Forward("fft_complex", fft_complex(input.val))

\* idft(&r) on the spectrum a forward transform returned
IdftOfSpectrum ==
    /\ pc = "forward" /\ fres.tag = "Ok" /\ Len(fres.val) \in ExactLens
    /\ Inverse("idft", fres.val, idft(fres.val))

\* ifft(&r) on the spectrum a forward transform returned
IfftOfSpectrum ==
    /\ pc = "forward" /\ fres.tag = "Ok"
    /\ Inverse("ifft", fres.val, ifft(fres.val))

\* idft(&x) on a sequence the caller supplies
IdftOfInput ==
    /\ pc = "input" /\ input.kind = "complex" /\ Len(input.val) \in ExactLens
    /\ Inverse("idft", input.val, idft(input.val))

\* ifft(&x) on a sequence the caller supplies
IfftOfInput ==
    /\ pc = "input" /\ input.kind = "complex"
    /\ Inverse("ifft", input.val, ifft(input.val))

\* mul_mv(&m, &v)
MulMv ==
    /\ pc = "input" /\ input.kind = "matrix"
    /\ pc' = "mul_mv" /\ fop' = "mul_mv" /\ fres' = mul_mv(input.m, input.val)
    /\ UNCHANGED << input, iop, iarg, ires >>

Next ==
    \/ Dft
    \/ Fft
    \/ DftComplex
    \/ FftComplex
    \/ IdftOfSpectrum
    \/ IfftOfSpectrum
    \/ IdftOfInput
    \/ IfftOfInput
    \/ MulMv

Spec == Init /\ [][Next]_vars

----------------------------------------------------------------------------
(* The properties *)

\* n = 2^k for some k >= 0
IsPow2(n) == \E k \in 0..n : 2^k = n

\* the caller applied forward operation op to its input and got an outcome
Applied(op) == pc \in {"forward", "inverse"} /\ fop = op

\* the caller applied inverse operation op to the spectrum of forward
\* operation f, itself applied to real samples
RoundTrip(f, op) ==
    pc = "inverse" /\ fop = f /\ iop = op /\ input.kind = "real"

\* C1: for every input whose length is a power of two, fft (fft_complex)
\* returns the same spectrum as dft (dft_complex), element by element.
C1_FftEqualsDft ==
    /\ (Applied("fft") /\ IsPow2(Len(input.val)))
          => /\ fres.tag = "Ok"
             /\ dft(input.val).tag = "Ok"
             /\ fres.val = dft(input.val).val
    /\ (Applied("fft_complex") /\ IsPow2(Len(input.val)))
          => /\ fres.tag = "Ok"
             /\ dft_complex(input.val).tag = "Ok"
             /\ fres.val = dft_complex(input.val).val

\* C1 witness: fft returned the spectrum of 8 samples, with a bin that is
\* not real and not rational (two levels of twiddle factors were applied).
C1_Witness ==
    /\ Applied("fft") /\ Len(input.val) = 8
    /\ fres.tag = "Ok"
    /\ fres.val[2].im.b # 0
    /\ fres.val = dft(input.val).val

\* C2: for n real samples, n a power of two, fft succeeds, ifft of its
\* spectrum succeeds, and ifft(fft(x)) = x element by element.
C2_IfftInvertsFft ==
    /\ (Applied("fft") /\ IsPow2(Len(input.val))) => fres.tag = "Ok"
    /\ (RoundTrip("fft", "ifft") /\ IsPow2(Len(input.val)))
          => ires.tag = "Ok" /\ ires.val = input.val

\* C2 witness: the round trip through fft and ifft of 8 samples, not all equal.
C2_Witness ==
    /\ RoundTrip("fft", "ifft") /\ Len(input.val) = 8
    /\ iarg = fres.val
    /\ input.val[1] # input.val[2] /\ input.val[2] # input.val[4]
    /\ ires.tag = "Ok" /\ ires.val = input.val

\* C3: for n >= 1 real samples, whatever n, idft(dft(x)) = x element by
\* element.
C3_IdftInvertsDft ==
    (RoundTrip("dft", "idft") /\ Len(input.val) >= 1)
       => ires.tag = "Ok" /\ ires.val = input.val

\* C3 witness: the round trip through dft and idft of 6 samples (not a power
\* of two), not all equal.
C3_Witness ==
    /\ RoundTrip("dft", "idft") /\ Len(input.val) = 6
    /\ iarg = fres.val
    /\ input.val[1] # input.val[2] /\ input.val[2] # input.val[4]
    /\ ires.tag = "Ok" /\ ires.val = input.val

\* the calls of function fn in a record of calls, by position
Calls(log, fn) == {k \in 1..Len(log) : log[k].fn = fn}

\* the position of the fft_complex call that made call k
Caller(log, k) ==
    CHOOSE j \in 0..(k - 1) :
       /\ j > 0 => log[j].fn = "fft_complex" /\ log[j].depth = log[k].depth - 1
       /\ \A i \in (j + 1)..(k - 1) :
             ~(log[i].fn = "fft_complex" /\ log[i].depth = log[k].depth - 1)

\* C4: on a length n that is not a power of two, fft, fft_complex and ifft
\* return the error NotAPowerOfTwo(n), n the length of the caller's input;
\* ifft returns the error of its fft_complex call unchanged; no sequence is
\* returned.
C4_RejectsWithInputLength ==
    /\ ((Applied("fft") \/ Applied("fft_complex")) /\ ~IsPow2(Len(input.val)))
          => fres.tag = "Err" /\ fres.err = Len(input.val) /\ fres.val = << >>
    /\ (pc = "inverse" /\ iop = "ifft" /\ ~IsPow2(Len(iarg)))
          => /\ ires.tag = "Err" /\ ires.err = Len(iarg) /\ ires.val = << >>
             /\ ires.err = fft_complex([i \in 1..Len(iarg) |-> conj(iarg[i])]).err

\* C4 witness: fft rejected 6 samples with NotAPowerOfTwo(6).
C4_Witness ==
    Applied("fft") /\ Len(input.val) = 6 /\ fres.tag = "Err" /\ fres.err = 6

\* C6: whenever dft, dft_complex, idft, fft or ifft returns a sequence, it
\* has the length of the input sequence.
C6_LengthPreserved ==
    /\ (pc \in {"forward", "inverse"} /\ fres.tag = "Ok")
          => Len(fres.val) = Len(input.val)
    /\ (pc = "inverse" /\ ires.tag = "Ok") => Len(ires.val) = Len(iarg)

\* C6 witness: ifft returned 8 samples for the 8 bins fft returned.
C6_Witness ==
    /\ pc = "inverse" /\ fop = "fft" /\ iop = "ifft"
    /\ Len(input.val) = 8 /\ Len(fres.val) = 8 /\ Len(ires.val) = 8

\* no call recorded in the outcome res broke a length precondition
PreconditionsKept(res) ==
    /\ res.tag # "Abort"
    /\ \A k \in Calls(res.log, "mul_mv") :
          res.log[k].sq /\ res.log[k].la = res.log[k].lb
    /\ \A k \in Calls(res.log, "add_vv") \cup Calls(res.log, "mul_vv_el") :
          /\ res.log[k].la = res.log[k].lb
          /\ Caller(res.log, k) > 0
          /\ 2 * res.log[k].la = res.log[Caller(res.log, k)].la

\* C8: in every execution of dft, dft_complex or idft on a nonempty input
\* and of fft or ifft on a power-of-two length, every mul_mv call gets a
\* square matrix and a vector of its size and every add_vv / mul_vv_el call
\* gets two vectors of length n/2, n the length of the fft_complex call that
\* makes it: nothing aborts.
C8_NoPreconditionViolated ==
    /\ ((Applied("dft") \/ Applied("dft_complex")) /\ Len(input.val) >= 1)
          => PreconditionsKept(fres)
    /\ ((Applied("fft") \/ Applied("fft_complex")) /\ IsPow2(Len(input.val)))
          => PreconditionsKept(fres)
    /\ (pc = "inverse" /\ iop = "idft" /\ Len(iarg) >= 1)
          => PreconditionsKept(ires)
    /\ (pc = "inverse" /\ iop = "ifft" /\ IsPow2(Len(iarg)))
          => PreconditionsKept(ires)

\* C8 witness: an ifft of 8 bins whose add_vv calls ran on vectors of length
\* 4 and, one level deeper, of length 2.
C8_Witness ==
    /\ pc = "inverse" /\ iop = "ifft" /\ Len(iarg) = 8 /\ ires.tag = "Ok"
    /\ \E j, k \in Calls(ires.log, "add_vv") :
          /\ ires.log[j].la = 4 /\ ires.log[k].la = 2
          /\ ires.log[k].depth = ires.log[j].depth + 1
    /\ Calls(ires.log, "mul_mv") # {}

\* the recursion of the fft_complex call on a sequence of length n, as the
\* outcome res of the operation that made it records it
RecursionSound(res, n) ==
    LET log == res.log
        F   == Calls(log, "fft_complex")
        top == CHOOSE k \in F : \A j \in F : k <= j
    IN  /\ F # {} /\ log[top].la = n
        \* a sub-call gets half of its caller's length, a power of two >= 4
        /\ \A k \in F \ {top} :
              /\ Caller(log, k) > 0
              /\ IsPow2(log[Caller(log, k)].la) /\ log[Caller(log, k)].la >= 4
              /\ 2 * log[k].la = log[Caller(log, k)].la
        \* the error comes from the outermost check, before any split or call
        /\ res.tag = "Err" =>
              /\ ~IsPow2(n) /\ res.err = n
              /\ F = {top} /\ log[Len(log)] = log[top]
              /\ Calls(log, "split") = {} /\ Calls(log, "dft_complex") = {}
        \* otherwise the recursion ends in dft_complex calls of length 2
        /\ res.tag # "Err" =>
              /\ res.tag = "Ok" /\ IsPow2(n)
              /\ Cardinality(Calls(log, "dft_complex")) = IF n = 1 THEN 1 ELSE n \div 2
              /\ \A k \in F : log[k + 1].fn = IF log[k].la <= 2 THEN "dft_complex"
                                                                ELSE "split"
        /\ \A k \in Calls(log, "dft_complex") :
              log[k].la = 2 \/ (log[k].la = 1 /\ n = 1)

\* C9: no recursive sub-call of fft_complex fails: each gets half of its
\* caller's power-of-two length >= 4.  NotAPowerOfTwo comes only from the
\* check of the outermost call, before any split or sub-call, and the
\* recursion ends in dft_complex calls of length 2 (1 only for an input of
\* length 1).
C9_OnlyOutermostCheckFails ==
    /\ (Applied("fft") \/ Applied("fft_complex"))
          => RecursionSound(fres, Len(input.val))
    /\ (pc = "inverse" /\ iop = "ifft") => RecursionSound(ires, Len(iarg))

\* C9 witness: fft of 8 samples made fft_complex calls of lengths 8, 4 and 2
\* at three depths and ended in four dft_complex calls of length 2.
C9_Witness ==
    /\ Applied("fft") /\ Len(input.val) = 8 /\ fres.tag = "Ok"
    /\ \E i, j, k \in Calls(fres.log, "fft_complex") :
          /\ fres.log[i].la = 8 /\ fres.log[j].la = 4 /\ fres.log[k].la = 2
          /\ fres.log[j].depth = fres.log[i].depth + 1
          /\ fres.log[k].depth = fres.log[j].depth + 1
    /\ Cardinality(Calls(fres.log, "dft_complex")) = 4

\* the outcome res is the error NotAPowerOfTwo(0), from a call that reached
\* neither dft_complex nor mul_mv
RejectedEmpty(res) ==
    /\ res.tag = "Err" /\ res.err = 0 /\ res.val = << >>
    /\ Calls(res.log, "dft_complex") = {} /\ Calls(res.log, "mul_mv") = {}

\* the outcome res is a panic of mul_mv on a matrix without rows
AbortedInMulMv(res) ==
    /\ res.tag = "Abort" /\ res.val = << >>
    /\ Len(res.log) >= 1
    /\ res.log[Len(res.log)].fn = "mul_mv" /\ res.log[Len(res.log)].la = 0

\* C10: on an empty input fft and ifft return NotAPowerOfTwo(0) without
\* calling dft_complex, whereas dft, dft_complex and idft abort inside mul_mv
\* and return neither a sequence nor an error.
C10_EmptyInput ==
    /\ ((Applied("fft") \/ Applied("fft_complex")) /\ Len(input.val) = 0)
          => RejectedEmpty(fres)
    /\ (pc = "inverse" /\ iop = "ifft" /\ Len(iarg) = 0) => RejectedEmpty(ires)
    /\ ((Applied("dft") \/ Applied("dft_complex")) /\ Len(input.val) = 0)
          => AbortedInMulMv(fres)
    /\ (pc = "inverse" /\ iop = "idft" /\ Len(iarg) = 0) => AbortedInMulMv(ires)

\* C10 witness: idft of the empty sequence aborted.
C10_Witness ==
    pc = "inverse" /\ iop = "idft" /\ iarg = << >> /\ ires.tag = "Abort"

\* e^(2*PI*i * t/n), for the n of ExactLens
Root(n, t) == Complex(Cos15((t % n) * (24 \div n)), Sin15((t % n) * (24 \div n)))

\* sum over the first j entries of x of x_j * e^(sign * 2*PI*i * k*j/n),
\* k and the entries counted from 0
RECURSIVE KernelSum(_, _, _, _)
KernelSum(x, sign, k, j) ==
    IF j = 0 THEN CZero
    ELSE CAdd(KernelSum(x, sign, k, j - 1),
              CMul(x[j], Root(Len(x), sign * k * (j - 1))))

\* the transform of x with kernel e^(sign * 2*PI*i * k*j/n)
Kernel(x, sign) == [k \in 1..Len(x) |-> KernelSum(x, sign, k - 1, Len(x))]

\* C5: dft_complex applies the matrix whose entry (i,j) is
\* e^(-2*PI*i * i*j/n), so it returns X_k = sum_j x_j * e^(-2*PI*i * k*j/n),
\* the standard forward kernel; idft applies the opposite sign (and divides
\* by n and keeps the real part).
C5_NegativeExponentKernel ==
    /\ (Applied("dft_complex") /\ fres.tag = "Ok")
          => fres.val = Kernel(input.val, -1)
    /\ (Applied("dft") /\ fres.tag = "Ok")
          => fres.val = Kernel(promote(input.val), -1)
    /\ (pc = "inverse" /\ iop = "idft" /\ ires.tag = "Ok")
          => ires.val = [k \in 1..Len(iarg) |->
                           CDiv(Kernel(iarg, 1)[k], Complex(R(Len(iarg)), R(0))).re]

\* every row of m is as long as m has rows
Square(m) == \A i \in 1..Len(m) : Len(m[i]) = Len(m)

\* sum over the first j entries of row * v, entry by entry
RECURSIVE Dot(_, _, _)
Dot(row, v, j) == IF j = 0 THEN CZero ELSE CAdd(Dot(row, v, j - 1), CMul(row[j], v[j]))

\* C7: on a matrix with n rows (n >= 1 here; without rows mul_mv aborts, see
\* C10) mul_mv aborts whenever the matrix is not square or the vector's
\* length is not n, and returns no value then; otherwise it returns the
\* vector r of length n with r[i] = sum_j M[i][j] * v[j].
C7_MulMvAbortsUnlessSquare ==
    (pc = "mul_mv" /\ Len(input.m) >= 1) =>
       IF Square(input.m) /\ Len(input.val) = Len(input.m)
       THEN /\ fres.tag = "Ok" /\ Len(fres.val) = Len(input.m)
            /\ \A i \in 1..Len(input.m) :
                  fres.val[i] = Dot(input.m[i], input.val, Len(input.m))
       ELSE fres.tag = "Abort"

====
